---- MODULE Spec2Model ----
(***************************************************************************)
(* Model of the multilingual-chat route (the orchestrator), its Web Worker *)
(* (multilingual-chat.worker.ts) and the export validators of the chat and *)
(* preprocess routes.                                                      *)
(*                                                                         *)
(*   Spec          orchestrator + module loading + RPC channel + worker    *)
(*   SpecValidate  the validators as pure functions over candidate modules *)
(***************************************************************************)
EXTENDS Integers, Sequences, FiniteSets, TLC

\* ------------------------------------------------------------------ bounds
\* init() invocations (route entered that many times)
MaxInits == 2
\* handleSend -> generateChatResponse invocations
MaxCalls == 2
\* beforeunload events fired at the window
MaxUnload == 1

Inits == 1..MaxInits
\* crypto.randomUUID(): every call draws a fresh id; ForeignId is never drawn
MaxIds == MaxInits + MaxCalls
Ids == 1..MaxIds
ForeignId == MaxIds + 1
AllIds == 1..ForeignId

\* what extractAssistantResponse can return: a text, or the empty string
ExtractedTexts == {"p1", ""}

\* ------------------------------------------------------- candidate modules
ChatFunctions == <<"detect_language", "get_text_stats", "normalize_text">>
PreprocessFunctions ==
  <<"preprocess_image", "preprocess_text", "normalize_text", "get_preprocess_stats">>

Range(s) == {s[k] : k \in 1..Len(s)}

\* typeof of a module-level export: a function, absent, or present but not callable
TypeOfs == {"function", "undefined", "object"}
\* what exports.memory is: absent, a WebAssembly.Memory, or some other value
MemoryKinds == {"absent", "Memory", "other"}

\* The JS glue module (import('../../pkg/...')): the typeof of each named export
\* and of its default export. isNull: the module-level variable is still null.
ModuleShapes(fns) ==
  [isNull : {FALSE}, typeOf : [Range(fns) \cup {"default"} -> TypeOfs]]
NullModule(fns) ==
  [isNull |-> TRUE, typeOf |-> [f \in Range(fns) \cup {"default"} |-> "undefined"]]

\* The value default() resolves with (the raw instance exports): whether it is a
\* non-null object, its memory, its other own keys, and what the loader's generic
\* validateWasmModule answers for it.
ExportsShapes(fns) ==
  { e \in [valid : BOOLEAN, isObject : BOOLEAN, memory : MemoryKinds,
           has : SUBSET Range(fns)] :
      ~e.isObject => (e.memory = "absent" /\ e.has = {}) }

\* Object.keys(exports)
exportKeys(exports) ==
  (IF exports.memory = "absent" THEN {} ELSE {"memory"}) \cup exports.has

\* validator results
ReturnNull == [kind |-> "null", memory |-> "absent", ops |-> <<>>,
               missing |-> <<>>, available |-> {}]
ThrowMissing(missing, available) ==
  [kind |-> "throw", memory |-> "absent", ops |-> <<>>,
   missing |-> missing, available |-> available]
ReturnHandle(memory, ops) ==
  [kind |-> "handle", memory |-> memory, ops |-> ops,
   missing |-> <<>>, available |-> {}]

\* validateWasmModule(exports), from ../wasm/loader
validateWasmModule(exports) == exports.valid

\* memoryValue && memoryValue instanceof WebAssembly.Memory
IsMemory(exports) == exports.memory = "Memory"

missingMemory(exports) ==
  IF ~IsMemory(exports) THEN <<"memory">> ELSE <<>>

\* the loop over requiredFunctions of validateMultilingualChatModule
ChatCallable(wme, f) == wme.typeOf[f] = "function"

missingChatFunctions(wme) ==
  IF wme.isNull
    THEN <<"module exports">>
    ELSE LET miss(f) == ~ChatCallable(wme, f)
         IN  SelectSeq(ChatFunctions, miss)

validateMultilingualChatModule(exports, wme) ==
  IF ~validateWasmModule(exports) THEN ReturnNull
  ELSE IF ~exports.isObject THEN ReturnNull
  ELSE LET missingExports == missingMemory(exports) \o missingChatFunctions(wme)
       IN  IF Len(missingExports) > 0
             THEN ThrowMissing(missingExports, exportKeys(exports))
           ELSE IF ~IsMemory(exports) THEN ReturnNull
           ELSE IF wme.isNull THEN ReturnNull
           ELSE ReturnHandle(exports.memory,
                             [f \in Range(ChatFunctions) |-> wme.typeOf[f]])

\* the four `in exports` tests of validatePreprocessModule
missingPreprocessKeys(exports) ==
  LET miss(f) == f \notin exports.has
  IN  SelectSeq(PreprocessFunctions, miss)

\* the typeof tests guarding the returned module
PreprocessCallableButLast(wme) ==
  /\ ~wme.isNull
  /\ \A k \in 1..(Len(PreprocessFunctions) - 1) :
       wme.typeOf[PreprocessFunctions[k]] = "function"
PreprocessCallable(wme) ==
  /\ ~wme.isNull
  /\ \A f \in Range(PreprocessFunctions) : wme.typeOf[f] = "function"

validatePreprocessModule(exports, wme) ==
  IF ~validateWasmModule(exports) THEN ReturnNull
  ELSE IF ~exports.isObject THEN ReturnNull
  ELSE LET missingExports == missingMemory(exports) \o missingPreprocessKeys(exports)
       IN  IF Len(missingExports) > 0
             THEN ThrowMissing(missingExports, exportKeys(exports))
           ELSE IF ~IsMemory(exports) THEN ThrowMissing(<<>>, {})
           ELSE IF IsMemory(exports) /\ PreprocessCallable(wme)
             THEN ReturnHandle(exports.memory,
                               [f \in Range(PreprocessFunctions) |-> wme.typeOf[f]])
           ELSE ReturnNull

\* getInitWasm's own test of the imported chat module: the first required export
\* that is not a function is reported, then a missing default
firstBadExport(module) ==
  LET bad(f) == module.typeOf[f] # "function"
      badOnes == SelectSeq(ChatFunctions, bad)
  IN  IF Len(badOnes) > 0 THEN <<badOnes[1]>>
      ELSE IF module.typeOf["default"] # "function" THEN <<"default">>
      ELSE <<>>


\* ------------------------------------------------------------------ state
VARIABLES
  \* orchestrator (multilingual-chat.ts)
  chatWorker,        \* 0: null; k: the k-th Worker constructed
  workersCreated,    \* runs of `new Worker(...)`
  terminated,        \* terminate() has been called on the worker
  terminateCalls,    \* calls of chatWorker.terminate()
  unloadEvents,      \* beforeunload events fired
  initPc,            \* per init(): idle, wasm, load, ready, failed
  initLoadId,        \* per init(): the id of the load call it awaits
  awaits,            \* per init(): the getInitWasm invocation whose outcome it awaits
  wasmSeen,          \* per init(): the outcome loadWasmModule gave it
  inv,               \* per getInitWasm invocation: none, importing, defaulting, outcome
  defaultCalls,      \* invocations of the glue module's default()
  wasmModuleExports, \* the module-level cache of the imported glue module
  wasmModule,        \* the validated handle (kind "null" while unset)
  sends,             \* handleSend invocations that reached generateChatResponse
  nextId,            \* ids drawn so far + 1
  handlers,          \* 'message' listeners registered on the worker: the id and the
                     \* kind of the call, n-th call made
  calls,             \* per id: the promise of the load / generate call
  settleLog,         \* per id: the responses that invoked its resolve / reject
  sentLog,           \* every worker.postMessage, in order
  orphanSeen,        \* the kinds of message events dispatched that no listener awaited
  \* worker (multilingual-chat.worker.ts)
  workerRecv,        \* how many entries of sentLog onmessage has been called with
  pipelinePromise,   \* null, pending, fulfilled, rejected
  pipelineCalls,     \* invocations of pipeline(...)
  wtask,             \* per id: where its onmessage invocation stands
  workerPosts,       \* per id: every self.postMessage carrying it, in order
  undelivered,       \* posted by the worker, not yet dispatched on the main thread
  thrown,            \* what the last generateChatResponse threw synchronously
  \* validators as functions (SpecValidate)
  vPc, vWhich, vExports, vModule, vOut,
  \* one call of the fetch wrappers (SpecFetch)
  fWhich,            \* customFetch (worker) or the globalThis.fetch override
  fUrl,              \* the URL of the caller's input
  fPc,               \* call, awaitProxy, awaitReturned, done
  fIdx,              \* the proxy candidate being awaited
  fLog,              \* every fetch() the call made, in order, with its outcome
  fRet,              \* the attempt whose outcome the call returns (0: none yet)
  \* the preprocessing page's init (SpecPreprocessInit)
  page,              \* the document: what getElementById finds for the two process
                     \* buttons, and whether setupUI's other elements are all there
  disabled,          \* per process button: its disabled property
  preInitPc,         \* idle, awaitWasm, awaitModel, done
  preWasm,           \* how loadWasmModule settled for the preprocessing module
  preWasmModule,     \* the preprocessing route's wasmModule: null or handle
  smolvlmPipeline,   \* null or loaded
  setupUICalls,      \* invocations of setupUI
  setupUIDone,       \* setupUI has returned
  errorDivText,      \* what the error element was last given
  preInitPromise     \* the promise init() returned: pending, fulfilled, rejected

orchVars == <<chatWorker, workersCreated, terminated, terminateCalls, unloadEvents,
              initPc, initLoadId, sends, nextId, handlers, calls, settleLog,
              sentLog, orphanSeen, thrown>>
loadVars == <<awaits, wasmSeen, inv, defaultCalls, wasmModuleExports, wasmModule>>
workerVars == <<workerRecv, pipelinePromise, pipelineCalls, wtask, workerPosts,
                undelivered>>
valVars == <<vPc, vWhich, vExports, vModule, vOut>>
fetchVars == <<fWhich, fUrl, fPc, fIdx, fLog, fRet>>
pageVars == <<page, disabled, preInitPc, preWasm, preWasmModule, smolvlmPipeline,
              setupUICalls, setupUIDone, errorDivText, preInitPromise>>
vars == <<orchVars, loadVars, workerVars, valVars, fetchVars, pageVars>>

\* `new Error(message)`: the chat route constructs no other error class
ErrorObject(message) == [name |-> "Error", message |-> message]
NoError == [name |-> "none", message |-> ""]

NoCall == [kind |-> "none", st |-> "unissued", val |-> ""]
Settled == {"ok", "load_error", "validation_error"}

InitOrch ==
  /\ chatWorker = 0
  /\ workersCreated = 0
  /\ terminated = FALSE
  /\ terminateCalls = 0
  /\ unloadEvents = 0
  /\ initPc = [i \in Inits |-> "idle"]
  /\ initLoadId = [i \in Inits |-> ForeignId]
  /\ sends = 0
  /\ nextId = 1
  /\ handlers = {}
  /\ calls = [id \in Ids |-> NoCall]
  /\ settleLog = [id \in Ids |-> <<>>]
  /\ sentLog = <<>>
  /\ orphanSeen = {}
  /\ thrown = NoError

InitLoad ==
  /\ awaits = [i \in Inits |-> i]
  /\ wasmSeen = [i \in Inits |-> "none"]
  /\ inv = [i \in Inits |-> [pc |-> "none", result |-> ReturnNull]]
  /\ defaultCalls = 0
  /\ wasmModuleExports = NullModule(ChatFunctions)
  /\ wasmModule = ReturnNull

InitWorker ==
  /\ workerRecv = 0
  /\ pipelinePromise = "null"
  /\ pipelineCalls = 0
  /\ wtask = [id \in Ids |-> [pc |-> "none", type |-> "none"]]
  /\ workerPosts = [id \in Ids |-> <<>>]
  /\ undelivered = {}

\* the validator variables while the orchestrator runs
ValIdle ==
  /\ vPc = "unused"
  /\ vWhich = "none"
  /\ vExports = [valid |-> FALSE, isObject |-> FALSE, memory |-> "absent", has |-> {}]
  /\ vModule = NullModule(ChatFunctions)
  /\ vOut = ReturnNull

\* the fetch variables while no call of a fetch wrapper is followed
FetchIdle ==
  /\ fWhich = "none"
  /\ fUrl = [host |-> "example.com", rest |-> {}]
  /\ fPc = "unused"
  /\ fIdx = 0
  /\ fLog = <<>>
  /\ fRet = 0

\* the preprocessing page's variables while its init is not followed
ProcessButtons == {"processImageBtn", "processTextBtn"}
PageIdle ==
  /\ page = [buttons |-> [b \in ProcessButtons |-> "absent"], complete |-> FALSE]
  /\ disabled = [b \in ProcessButtons |-> FALSE]
  /\ preInitPc = "unused"
  /\ preWasm = "none"
  /\ preWasmModule = "null"
  /\ smolvlmPipeline = "null"
  /\ setupUICalls = 0
  /\ setupUIDone = FALSE
  /\ errorDivText = ""
  /\ preInitPromise = "none"

Init == InitOrch /\ InitLoad /\ InitWorker /\ ValIdle /\ FetchIdle /\ PageIdle


\* ------------------------------------------------- module loading (init)
\* loadWasmModule's cache (../wasm/loader): the invocations of the initializer
\* that are in flight or have settled; a caller that finds one awaits it
LoaderInflightNone == {}
LoaderInflight == {j \in Inits : inv[j].pc # "none"}

\* getInitWasm up to its first await: the import, or default() when the glue
\* module is already cached
getInitWasm(i) ==
  IF wasmModuleExports.isNull
    THEN /\ inv' = [inv EXCEPT ![i].pc = "importing"]
         /\ UNCHANGED defaultCalls
    ELSE /\ inv' = [inv EXCEPT ![i].pc = "defaulting"]
         /\ defaultCalls' = defaultCalls + 1

\* init() up to `await loadWasmModule(getInitWasm, validateMultilingualChatModule)`
InitStart(i) ==
  /\ initPc[i] = "idle"
  /\ \A j \in Inits : j < i => initPc[j] # "idle"
  /\ initPc' = [initPc EXCEPT ![i] = "wasm"]
  /\ IF LoaderInflight # {}
       THEN /\ awaits' = [awaits EXCEPT ![i] = CHOOSE j \in LoaderInflight : TRUE]
            /\ UNCHANGED <<inv, defaultCalls>>
       ELSE /\ awaits' = [awaits EXCEPT ![i] = i]
            /\ getInitWasm(i)
  /\ UNCHANGED <<wasmSeen, wasmModuleExports, wasmModule>>
  /\ UNCHANGED <<chatWorker, workersCreated, terminated, terminateCalls, unloadEvents,
                 initLoadId, sends, nextId, handlers, calls, settleLog, sentLog,
                 orphanSeen, thrown>>
  /\ UNCHANGED <<workerVars, valVars, fetchVars, pageVars>>

\* the import resolves with module m: getInitWasm tests its exports, caches them
\* and calls default(), or throws
ImportResolved(i, m) ==
  /\ inv[i].pc = "importing"
  /\ IF firstBadExport(m) = <<>>
       THEN /\ wasmModuleExports' = m
            /\ defaultCalls' = defaultCalls + 1
            /\ inv' = [inv EXCEPT ![i].pc = "defaulting"]
       ELSE /\ inv' = [inv EXCEPT ![i].pc = "load_error"]
            /\ UNCHANGED <<wasmModuleExports, defaultCalls>>
  /\ UNCHANGED <<awaits, wasmSeen, wasmModule>>
  /\ UNCHANGED <<orchVars, workerVars, valVars, fetchVars, pageVars>>

\* the import itself rejects
ImportRejected(i) ==
  /\ inv[i].pc = "importing"
  /\ inv' = [inv EXCEPT ![i].pc = "load_error"]
  /\ UNCHANGED <<awaits, wasmSeen, defaultCalls, wasmModuleExports, wasmModule>>
  /\ UNCHANGED <<orchVars, workerVars, valVars, fetchVars, pageVars>>

\* default() resolves with e and the loader runs the validator over it; a thrown
\* error or a null is a validation failure
DefaultResolved(i, e) ==
  /\ inv[i].pc = "defaulting"
  /\ LET r == validateMultilingualChatModule(e, wasmModuleExports)
     IN  inv' = [inv EXCEPT ![i] =
                   [pc |-> IF r.kind = "handle" THEN "ok" ELSE "validation_error",
                    result |-> r]]
  /\ UNCHANGED <<awaits, wasmSeen, defaultCalls, wasmModuleExports, wasmModule>>
  /\ UNCHANGED <<orchVars, workerVars, valVars, fetchVars, pageVars>>

\* default() rejects (the binary could not be fetched or instantiated)
DefaultRejected(i) ==
  /\ inv[i].pc = "defaulting"
  /\ inv' = [inv EXCEPT ![i].pc = "load_error"]
  /\ UNCHANGED <<awaits, wasmSeen, defaultCalls, wasmModuleExports, wasmModule>>
  /\ UNCHANGED <<orchVars, workerVars, valVars, fetchVars, pageVars>>

\* ------------------------------------------------------- the RPC channel
LoadMessageAsGenerate(id) == [id |-> id, type |-> "generate"]
LoadMessage(id) == [id |-> id, type |-> "load"]
GenerateMessage(id) == [id |-> id, type |-> "generate"]
Response(id, type, data) == [id |-> id, type |-> type, data |-> data]

\* crypto.randomUUID(): an id no earlier call drew
randomUUIDRepeated == IF nextId > 1 THEN nextId - 1 ELSE nextId
randomUUID == nextId

\* `worker.addEventListener('message', handler)`, in the synchronous stretch that
\* ends with worker.postMessage
addEventListenerSkipped(entry) == handlers
addEventListener(entry) == handlers \cup {entry}

\* `if (chatWorker) return;` of loadChatModel
WorkerExistsNever == FALSE
WorkerExists == chatWorker # 0

\* loadChatModel, called by init i, up to its await (or its early return, after
\* which init registers its listeners)
loadChatModel(i) ==
  IF WorkerExists
    THEN /\ initPc' = [initPc EXCEPT ![i] = "ready"]
         /\ UNCHANGED <<chatWorker, workersCreated, initLoadId, nextId, handlers,
                        calls, sentLog>>
    ELSE /\ nextId <= MaxIds
         /\ chatWorker' = workersCreated + 1
         /\ workersCreated' = workersCreated + 1
         /\ handlers' = addEventListener([id |-> randomUUID, kind |-> "load", n |-> nextId])
         /\ calls' = [calls EXCEPT ![randomUUID] =
                        [kind |-> "load", st |-> "pending", val |-> ""]]
         /\ sentLog' = Append(sentLog, LoadMessage(randomUUID))
         /\ initLoadId' = [initLoadId EXCEPT ![i] = randomUUID]
         /\ nextId' = nextId + 1
         /\ initPc' = [initPc EXCEPT ![i] = "load"]

\* `await loadWasmModule(...)` threw in init i: the rest of the try block is
\* skipped
loadWasmModuleThrewNever(i) == FALSE
loadWasmModuleThrew(i) == inv[awaits[i]].pc # "ok"

\* init() resumes after loadWasmModule: on success it stores the handle and calls
\* loadChatModel; on failure its catch block rethrows
InitWasmDone(i) ==
  /\ initPc[i] = "wasm"
  /\ inv[awaits[i]].pc \in Settled
  /\ wasmSeen' = [wasmSeen EXCEPT ![i] = inv[awaits[i]].pc]
  /\ IF ~loadWasmModuleThrew(i)
       THEN /\ wasmModule' = inv[awaits[i]].result
            /\ loadChatModel(i)
       ELSE /\ initPc' = [initPc EXCEPT ![i] = "failed"]
            /\ UNCHANGED <<wasmModule, chatWorker, workersCreated, initLoadId, nextId,
                           handlers, calls, sentLog>>
  /\ UNCHANGED <<awaits, inv, defaultCalls, wasmModuleExports>>
  /\ UNCHANGED <<terminated, terminateCalls, unloadEvents, sends, settleLog,
                 orphanSeen, thrown>>
  /\ UNCHANGED <<workerVars, valVars, fetchVars, pageVars>>

\* `if (event.data.id !== id) return;` of both handlers
HandlerMatchesAny(h, m) == TRUE
HandlerMatches(h, m) == h.id = m.id

\* `worker.removeEventListener('message', handler)` by the listeners that matched
removeEventListenerNoop(matched) == handlers
removeEventListener(matched) == handlers \ matched

\* generateChatResponse's handler after the id test
settleGenerateGeneric(call, m) ==
  IF m.type = "result" THEN [call EXCEPT !.st = "resolved", !.val = ""]
  ELSE IF m.type = "error" THEN [call EXCEPT !.st = "rejected", !.val = "Unknown error"]
  ELSE call
settleGenerate(call, m) ==
  IF m.type = "result" THEN [call EXCEPT !.st = "resolved", !.val = m.data]
  ELSE IF m.type = "error" THEN [call EXCEPT !.st = "rejected", !.val = m.data]
  ELSE call

\* loadChatModel's handler after the id test
settleLoadOnResult(call, m) ==
  IF m.type = "result" THEN [call EXCEPT !.st = "resolved"]
  ELSE IF m.type = "error" THEN [call EXCEPT !.st = "rejected", !.val = m.data]
  ELSE call
settleLoad(call, m) ==
  IF m.type = "loaded" THEN [call EXCEPT !.st = "resolved"]
  ELSE IF m.type = "error" THEN [call EXCEPT !.st = "rejected", !.val = m.data]
  ELSE call

\* the handler of h calls resolve or reject for m
Invokes(h, m) ==
  \/ h.kind = "generate" /\ m.type \in {"result", "error"}
  \/ h.kind = "load" /\ m.type \in {"loaded", "error"}

\* One 'message' event on the worker object: every registered listener runs.
\* A listener whose id test passes removes itself and settles its promise; an
\* init awaiting a settled load call then resumes (ready: listeners registered;
\* failed: its catch block rethrows).
Dispatch(m) ==
  LET matched == {h \in handlers : HandlerMatches(h, m)}
      hit(id) == {h \in matched : h.id = id}
      settle(id) ==
        LET h == CHOOSE x \in hit(id) : TRUE
        IN  IF calls[id].st # "pending" THEN calls[id]
            ELSE IF h.kind = "generate" THEN settleGenerate(calls[id], m)
            ELSE settleLoad(calls[id], m)
      after == [id \in Ids |-> IF hit(id) # {} THEN settle(id) ELSE calls[id]]
  IN  /\ handlers' = removeEventListener(matched)
      /\ orphanSeen' =
           IF \E h \in handlers : h.id = m.id THEN orphanSeen
           ELSE IF m.id \in Ids /\ calls[m.id].st \in {"resolved", "rejected"}
             THEN orphanSeen \cup {"duplicate"}
           ELSE orphanSeen \cup {"unknown"}
      /\ calls' = after
      /\ settleLog' = [id \in Ids |->
                         IF \E h \in hit(id) : Invokes(h, m)
                           THEN Append(settleLog[id], m) ELSE settleLog[id]]
      /\ initPc' = [i \in Inits |->
                      IF initPc[i] # "load" THEN initPc[i]
                      ELSE IF after[initLoadId[i]].st = "resolved" THEN "ready"
                      ELSE IF after[initLoadId[i]].st = "rejected" THEN "failed"
                      ELSE "load"]

\* the main thread dispatches a message the worker posted
Deliver(m) ==
  /\ ~terminated
  /\ m \in undelivered
  /\ undelivered' = undelivered \ {m}
  /\ Dispatch(m)
  /\ UNCHANGED <<chatWorker, workersCreated, terminated, terminateCalls, unloadEvents,
                 initLoadId, sends, nextId, sentLog, thrown>>
  /\ UNCHANGED <<workerRecv, pipelinePromise, pipelineCalls, wtask, workerPosts>>
  /\ UNCHANGED <<loadVars, valVars, fetchVars, pageVars>>

\* ids a message event may carry: the ones drawn so far, or one never drawn
KnownIds == (1..(nextId - 1)) \cup {ForeignId}
ResponseTypes == {"loaded", "result", "error", "other"}

\* The listeners take any MessageEvent: the channel hands them an event the
\* worker's code did not post for a pending call (a duplicate, an unknown id,
\* another kind). An event no listener takes changes nothing.
Inject(m) ==
  /\ ~terminated
  /\ chatWorker # 0
  /\ Dispatch(m)
  /\ UNCHANGED <<chatWorker, workersCreated, terminated, terminateCalls, unloadEvents,
                 initLoadId, sends, nextId, sentLog, thrown>>
  /\ UNCHANGED <<workerVars, loadVars, valVars, fetchVars, pageVars>>

\* a listener registered by a completed init exists (click, keydown, beforeunload)
ReadyInits == {i \in Inits : initPc[i] = "ready"}

\* generateChatResponse: it throws when there is no worker; otherwise it draws an
\* id, registers its handler and posts the command
generateChatResponse ==
  IF chatWorker = 0
    THEN /\ thrown' = ErrorObject("Chat worker not initialized")
         /\ UNCHANGED <<nextId, handlers, calls, sentLog>>
    ELSE /\ nextId <= MaxIds
         /\ handlers' = addEventListener(
                          [id |-> randomUUID, kind |-> "generate", n |-> nextId])
         /\ calls' = [calls EXCEPT ![randomUUID] =
                        [kind |-> "generate", st |-> "pending", val |-> ""]]
         /\ sentLog' = Append(sentLog, GenerateMessage(randomUUID))
         /\ nextId' = nextId + 1
         /\ thrown' = NoError

\* the user sends a chat message (click on sendBtn, or Enter in chatInput)
Send ==
  /\ ReadyInits # {}
  /\ sends < MaxCalls
  /\ sends' = sends + 1
  /\ generateChatResponse
  /\ UNCHANGED <<chatWorker, workersCreated, terminated, terminateCalls, unloadEvents,
                 initPc, initLoadId, settleLog, orphanSeen>>
  /\ UNCHANGED <<workerVars, loadVars, valVars, fetchVars, pageVars>>

\* beforeunload fires: every listener a completed init registered terminates the
\* worker. The page is not necessarily unloaded afterwards.
BeforeUnload ==
  /\ ReadyInits # {}
  /\ unloadEvents < MaxUnload
  /\ unloadEvents' = unloadEvents + 1
  /\ IF chatWorker # 0
       THEN /\ terminated' = TRUE
            /\ terminateCalls' = terminateCalls + Cardinality(ReadyInits)
       ELSE UNCHANGED <<terminated, terminateCalls>>
  /\ UNCHANGED <<chatWorker, workersCreated, initPc, initLoadId, sends, nextId,
                 handlers, calls, settleLog, sentLog, orphanSeen, thrown>>
  /\ UNCHANGED <<workerVars, loadVars, valVars, fetchVars, pageVars>>


\* ------------------------------------------------------------ the worker
\* self.postMessage, by the invocation handling command id
Post(id, msgs) ==
  /\ workerPosts' = [workerPosts EXCEPT ![id] = @ \o msgs]
  /\ undelivered' = undelivered \cup Range(msgs)

\* `!pipelinePromise`: the promise itself is cached as soon as pipeline(...) is
\* called, whatever becomes of it
pipelinePromiseUnsetUntilSettled == pipelinePromise \in {"null", "pending"}
pipelinePromiseUnsetOnceRejected == pipelinePromise \in {"null", "rejected"}
pipelinePromiseUnset == pipelinePromise = "null"

\* getPipeline: the pipeline is constructed when no promise is cached
getPipeline ==
  IF pipelinePromiseUnset
    THEN /\ pipelinePromise' = "pending"
         /\ pipelineCalls' = pipelineCalls + 1
    ELSE UNCHANGED <<pipelinePromise, pipelineCalls>>

\* onmessage is called with the next posted command and runs to `await getPipeline()`
WorkerReceive ==
  /\ ~terminated
  /\ workerRecv < Len(sentLog)
  /\ LET msg == sentLog[workerRecv + 1]
     IN  wtask' = [wtask EXCEPT ![msg.id] = [pc |-> "awaitPipeline", type |-> msg.type]]
  /\ workerRecv' = workerRecv + 1
  /\ getPipeline
  /\ UNCHANGED <<workerPosts, undelivered>>
  /\ UNCHANGED <<orchVars, loadVars, valVars, fetchVars, pageVars>>

\* pipeline('text-generation', MODEL_ID) settles
PipelineSettled(ok) ==
  /\ ~terminated
  /\ pipelinePromise = "pending"
  /\ pipelinePromise' = IF ok THEN "fulfilled" ELSE "rejected"
  /\ UNCHANGED <<workerRecv, pipelineCalls, wtask, workerPosts, undelivered>>
  /\ UNCHANGED <<orchVars, loadVars, valVars, fetchVars, pageVars>>

\* the load branch: `self.postMessage(response)` and return
loadedPostsTwice(id) == <<Response(id, "loaded", ""), Response(id, "loaded", "")>>
loadedPosts(id) == <<Response(id, "loaded", "")>>

\* the catch block's message
errorPosts(id, text) == <<Response(id, "error", text)>>

\* the end of the generate branch: `response || 'I understand.'` is posted
resultPostsThenError(id, text) ==
  <<Response(id, "result", IF text = "" THEN "I understand." ELSE text),
    Response(id, "error", "Unknown error")>>
resultPosts(id, text) ==
  <<Response(id, "result", IF text = "" THEN "I understand." ELSE text)>>

\* an invocation resumes after `await getPipeline()`: a load is acknowledged; a
\* generate builds its prompt (the chat template may not return a string) and
\* awaits the generator; a rejected pipeline goes to the catch block
WorkerResume(id, templateOk) ==
  /\ ~terminated
  /\ wtask[id].pc = "awaitPipeline"
  /\ pipelinePromise \in {"fulfilled", "rejected"}
  /\ IF pipelinePromise = "rejected"
       THEN /\ Post(id, errorPosts(id, "pipeline failed"))
            /\ wtask' = [wtask EXCEPT ![id].pc = "done"]
     ELSE IF wtask[id].type = "load"
       THEN /\ Post(id, loadedPosts(id))
            /\ wtask' = [wtask EXCEPT ![id].pc = "done"]
     ELSE IF wtask[id].type = "generate"
       THEN IF templateOk
              THEN /\ wtask' = [wtask EXCEPT ![id].pc = "generating"]
                   /\ UNCHANGED <<workerPosts, undelivered>>
              ELSE /\ Post(id, errorPosts(id, "Chat template did not return a string"))
                   /\ wtask' = [wtask EXCEPT ![id].pc = "done"]
     ELSE /\ wtask' = [wtask EXCEPT ![id].pc = "done"]
          /\ UNCHANGED <<workerPosts, undelivered>>
  /\ UNCHANGED <<workerRecv, pipelinePromise, pipelineCalls>>
  /\ UNCHANGED <<orchVars, loadVars, valVars, fetchVars, pageVars>>

\* what `await generator(formattedPrompt, options)` can end in
GeneratorOutcomes ==
  {[kind |-> "text", text |-> t] : t \in ExtractedTexts}
    \cup {[kind |-> "no_text", text |-> ""], [kind |-> "rejected", text |-> ""]}

\* the generator settles: a result is posted, or the catch block posts the error
WorkerGenerated(id, outcome) ==
  /\ ~terminated
  /\ wtask[id].pc = "generating"
  /\ wtask' = [wtask EXCEPT ![id].pc = "done"]
  /\ IF outcome.kind = "text"
       THEN Post(id, resultPosts(id, outcome.text))
     ELSE IF outcome.kind = "no_text"
       THEN Post(id, errorPosts(id, "Failed to extract generated text from result"))
     ELSE Post(id, errorPosts(id, "generator failed"))
  /\ UNCHANGED <<workerRecv, pipelinePromise, pipelineCalls>>
  /\ UNCHANGED <<orchVars, loadVars, valVars, fetchVars, pageVars>>

\* ------------------------------------------------------------ specification
\* the main thread: init(), the module loading it awaits, the user, the window
NextOrchestrator ==
  \/ \E i \in Inits : InitStart(i)
  \/ \E i \in Inits, m \in ModuleShapes(ChatFunctions) : ImportResolved(i, m)
  \/ \E i \in Inits : ImportRejected(i)
  \/ \E i \in Inits, e \in ExportsShapes(ChatFunctions) : DefaultResolved(i, e)
  \/ \E i \in Inits : DefaultRejected(i)
  \/ \E i \in Inits : InitWasmDone(i)
  \/ Send
  \/ BeforeUnload

\* the worker, and the delivery of what it posts
NextWorker ==
  \/ \E m \in undelivered : Deliver(m)
  \/ WorkerReceive
  \/ \E ok \in BOOLEAN : PipelineSettled(ok)
  \/ \E id \in Ids, ok \in BOOLEAN : WorkerResume(id, ok)
  \/ \E id \in Ids, o \in GeneratorOutcomes : WorkerGenerated(id, o)

Next == NextOrchestrator \/ NextWorker

\* the orchestrator with this repository's worker
Spec == Init /\ [][Next]_vars

\* The orchestrator on its own, against a channel that may hand its listeners any
\* message event at any time (every response a worker could post, duplicates,
\* unknown ids, other kinds).
NextChannel ==
  \/ NextOrchestrator
  \/ \E id \in KnownIds, t \in ResponseTypes : Inject(Response(id, t, "x"))

SpecChannel == Init /\ [][NextChannel]_vars

\* generateChatResponse called as a function, in any state of the orchestrator
\* (handleSend is its only caller in the page, and only after loadChatModel)
CallGenerate ==
  /\ sends < MaxCalls
  /\ sends' = sends + 1
  /\ generateChatResponse
  /\ UNCHANGED <<chatWorker, workersCreated, terminated, terminateCalls, unloadEvents,
                 initPc, initLoadId, settleLog, orphanSeen>>
  /\ UNCHANGED <<workerVars, loadVars, valVars, fetchVars, pageVars>>

\* the texts a response may carry: the worker posts the generated text, or the
\* message of whatever was thrown in it
PayloadTexts == {"x", "Chat worker not initialized"}

NextCall ==
  \/ NextOrchestrator
  \/ CallGenerate
  \/ \E id \in KnownIds, t \in ResponseTypes : Inject(Response(id, t, "x"))
  \/ \E id \in KnownIds, d \in PayloadTexts : Inject(Response(id, "error", d))

SpecCall == Init /\ [][NextCall]_vars


\* ------------------------------------------------ the validators as functions
\* the glue modules a validator can meet: default is callable (getInitWasm has
\* called it), or the module-level variable is still null
ValidatorModules(fns) ==
  {m \in ModuleShapes(fns) : m.typeOf["default"] = "function"} \cup {NullModule(fns)}

InitValidate ==
  /\ InitOrch /\ InitLoad /\ InitWorker /\ FetchIdle /\ PageIdle
  /\ vPc = "input"
  /\ vOut = ReturnNull
  /\ \/ /\ vWhich = "chat"
        /\ vExports \in ExportsShapes(ChatFunctions)
        /\ vModule \in ValidatorModules(ChatFunctions)
     \/ /\ vWhich = "preprocess"
        /\ vExports \in ExportsShapes(PreprocessFunctions)
        /\ vModule \in ValidatorModules(PreprocessFunctions)

ValidateChat ==
  /\ vPc = "input"
  /\ vWhich = "chat"
  /\ vOut' = validateMultilingualChatModule(vExports, vModule)
  /\ vPc' = "done"
  /\ UNCHANGED <<vWhich, vExports, vModule, orchVars, loadVars, workerVars,
               fetchVars, pageVars>>

ValidatePreprocess ==
  /\ vPc = "input"
  /\ vWhich = "preprocess"
  /\ vOut' = validatePreprocessModule(vExports, vModule)
  /\ vPc' = "done"
  /\ UNCHANGED <<vWhich, vExports, vModule, orchVars, loadVars, workerVars,
               fetchVars, pageVars>>

NextValidate == ValidateChat \/ ValidatePreprocess

SpecValidate == InitValidate /\ [][NextValidate]_vars

\* ------------------------------------------------- the fetch wrappers
\* CORS_PROXY_SERVICES, by the host of each proxy base
CORS_PROXY_SERVICES_Reversed == <<"api.codetabs.com", "corsproxy.io", "api.allorigins.win">>
CORS_PROXY_SERVICES == <<"api.allorigins.win", "corsproxy.io", "api.codetabs.com">>

\* A URL string: its host, and the host names that occur in the rest of it
\* (path, query)
UrlHosts == {"huggingface.co", "cdn.jsdelivr.net", "api.allorigins.win", "example.com"}
UrlMentions == SUBSET {"huggingface.co", "cdn.jsdelivr.net"}
Urls == [host : UrlHosts, rest : UrlMentions]

\* url.includes(s)
includes(url, s) == url.host = s \/ s \in url.rest

\* proxyBase + encodeURIComponent(url): the letters and dots of the original URL
\* are kept, so its host names still occur in the result
proxyUrl(proxyBase, url) == [host |-> proxyBase, rest |-> url.rest \cup {url.host}]

needsProxy(url) ==
  /\ includes(url, "huggingface.co")
  /\ ~includes(url, "cdn.jsdelivr.net")
  /\ ~includes(url, "api.allorigins.win")
  /\ ~includes(url, "corsproxy.io")
  /\ ~includes(url, "api.codetabs.com")

\* the test of the globalThis.fetch override of the preprocess route
overrideProxies(url) ==
  includes(url, "huggingface.co") /\ ~includes(url, "cdn.jsdelivr.net")

\* the arguments of one fetch(): the URL, and the init (the caller's, or the
\* caller's with redirect: 'follow')
DirectRequest(url) == [url |-> url, init |-> "init"]
FollowRequest(url) == [url |-> url, init |-> "init+follow"]

\* what one fetch() ends in: a response with a status, or a thrown fault
Statuses == {200, 304, 404, 503}
FetchOutcomes ==
  {[kind |-> "response", status |-> st] : st \in Statuses}
    \cup {[kind |-> "fault", status |-> 0]}
Inflight == [kind |-> "inflight", status |-> 0]

\* response.ok
ok(o) == o.kind = "response" /\ o.status >= 200 /\ o.status <= 299

\* the loop body after the await: `continue` on a 4xx/5xx status, return on
\* response.ok, fall through to the next iteration otherwise
AcceptsAnyResponse(o) == o.kind = "response"
AcceptsNonError(o) == o.kind = "response" /\ ~(o.status >= 400 /\ o.status < 600)
Accepts(o) ==
  /\ o.kind = "response"
  /\ ~(o.status >= 400 /\ o.status < 600)
  /\ ok(o)

\* the candidate the loop goes on with after candidate k was not accepted
NextCandidateRetrying(k, o, log) ==
  IF o.kind = "fault" /\ Len(log) = k THEN k ELSE k + 1
NextCandidate(k, o, log) == k + 1

\* `return fetch(input, init)` after the loop
FallbackLastProxy(url) ==
  FollowRequest(proxyUrl(CORS_PROXY_SERVICES[Len(CORS_PROXY_SERVICES)], url))
Fallback(url) == DirectRequest(url)

\* fetch(req) is called; with ret its promise is what the wrapper returns
StartFetch(req, ret) ==
  /\ fLog' = Append(fLog, [req |-> req, out |-> Inflight])
  /\ fRet' = IF ret THEN Len(fLog) + 1 ELSE fRet
  /\ fPc' = IF ret THEN "awaitReturned" ELSE "awaitProxy"

\* customFetch is called (the worker's env.fetch)
customFetch ==
  /\ fWhich = "worker"
  /\ fPc = "call"
  /\ IF ~needsProxy(fUrl)
       THEN /\ StartFetch(DirectRequest(fUrl), TRUE)
            /\ UNCHANGED fIdx
       ELSE /\ fLog' = <<[req |-> FollowRequest(proxyUrl(CORS_PROXY_SERVICES[1], fUrl)),
                          out |-> Inflight]>>
            /\ fPc' = "awaitProxy"
            /\ fIdx' = 1
            /\ UNCHANGED fRet
  /\ UNCHANGED <<fWhich, fUrl>>
  /\ UNCHANGED <<orchVars, loadVars, workerVars, valVars, pageVars>>

\* the globalThis.fetch override of the preprocess route is called
fetchOverride ==
  /\ fWhich = "preprocess"
  /\ fPc = "call"
  /\ IF overrideProxies(fUrl)
       THEN StartFetch(DirectRequest(proxyUrl("api.allorigins.win", fUrl)), TRUE)
       ELSE StartFetch(DirectRequest(fUrl), TRUE)
  /\ UNCHANGED <<fWhich, fUrl, fIdx>>
  /\ UNCHANGED <<orchVars, loadVars, workerVars, valVars, pageVars>>

\* the awaited fetch of proxy candidate fIdx settles and customFetch resumes: it
\* returns the response, or goes on with the next candidate, or leaves the loop
ProxySettled(o) ==
  /\ fPc = "awaitProxy"
  /\ LET settled == [fLog EXCEPT ![Len(fLog)].out = o]
         next == NextCandidate(fIdx, o, fLog)
     IN  IF Accepts(o)
           THEN /\ fLog' = settled
                /\ fRet' = Len(fLog)
                /\ fPc' = "done"
                /\ UNCHANGED fIdx
         ELSE IF next <= Len(CORS_PROXY_SERVICES)
           THEN /\ fLog' = Append(settled,
                     [req |-> FollowRequest(proxyUrl(CORS_PROXY_SERVICES[next], fUrl)),
                      out |-> Inflight])
                /\ fIdx' = next
                /\ UNCHANGED <<fPc, fRet>>
         ELSE /\ fLog' = Append(settled, [req |-> Fallback(fUrl), out |-> Inflight])
              /\ fRet' = Len(fLog) + 1
              /\ fPc' = "awaitReturned"
              /\ UNCHANGED fIdx
  /\ UNCHANGED <<fWhich, fUrl>>
  /\ UNCHANGED <<orchVars, loadVars, workerVars, valVars, pageVars>>

\* the fetch whose promise the wrapper returned settles: its outcome is the
\* outcome of the call
ReturnedSettled(o) ==
  /\ fPc = "awaitReturned"
  /\ fLog' = [fLog EXCEPT ![Len(fLog)].out = o]
  /\ fPc' = "done"
  /\ UNCHANGED <<fWhich, fUrl, fIdx, fRet>>
  /\ UNCHANGED <<orchVars, loadVars, workerVars, valVars, pageVars>>

\* one call of a fetch wrapper, on any URL
InitFetch ==
  /\ InitOrch /\ InitLoad /\ InitWorker /\ ValIdle /\ PageIdle
  /\ fWhich \in {"worker", "preprocess"}
  /\ fUrl \in Urls
  /\ fPc = "call"
  /\ fIdx = 0
  /\ fLog = <<>>
  /\ fRet = 0

NextFetch ==
  \/ customFetch
  \/ fetchOverride
  \/ \E o \in FetchOutcomes : ProxySettled(o)
  \/ \E o \in FetchOutcomes : ReturnedSettled(o)

SpecFetch == InitFetch /\ [][NextFetch]_vars


\* ------------------------------------------- the preprocessing page's init
\* the error classes of ../wasm/types
WasmLoadError(message) == [name |-> "WasmLoadError", message |-> message]
WasmInitError(message) == [name |-> "WasmInitError", message |-> message]

\* what loadWasmModule rejects with when it does not settle "ok"
loaderError(r) ==
  IF r = "load_error" THEN WasmLoadError("initializer failed")
                      ELSE WasmInitError("validation failed")

\* what getElementById can find for a process button: an HTMLButtonElement, some
\* other element, or nothing
ElementKinds == {"button", "element", "absent"}
Pages == [buttons : [ProcessButtons -> ElementKinds], complete : BOOLEAN]

\* `if (btn instanceof HTMLButtonElement) btn.disabled = value`, for both buttons
setDisabled(value) ==
  disabled' = [b \in ProcessButtons |->
                 IF page.buttons[b] = "button" THEN value ELSE disabled[b]]

\* setupUI's guard: every element it looks up must exist (the process buttons as
\* any element, the others with their expected types)
setupUIThrows ==
  \/ ~page.complete
  \/ \E b \in ProcessButtons : page.buttons[b] = "absent"

\* the text the outer catch block gives the error element, by error class
outerErrorText(error) ==
  IF error.name = "WasmLoadError" THEN "Failed to load WASM preprocessing module"
  ELSE IF error.name = "WasmInitError"
    THEN "WASM preprocessing module initialization failed"
  ELSE "Error"

\* the outer catch block: buttons disabled, the error shown, nothing rethrown, so
\* the async function returns
outerCatch(error) ==
  /\ setDisabled(TRUE)
  /\ errorDivText' = outerErrorText(error)
  /\ preInitPc' = "done"
  /\ preInitPromise' = "fulfilled"

\* how pipeline('image-to-text', ...) can settle: loaded, or rejected with a
\* message that mentions 401 / Unauthorized / CORS, or with another message
CaptionOutcomes == {"loaded", "cors", "failed"}

\* the inner try/catch around the captioning pipeline: its catch block shows a
\* message and sets smolvlmPipeline to null; nothing leaves it
captionErrorRethrown(o) == o # "loaded"
captionErrorEscapes(o) == FALSE

innerErrorText(o) ==
  IF o = "cors" THEN "Image captioning model unavailable (CORS/auth issue)"
                ELSE "Image captioning model failed to load"

\* init() up to `await loadWasmModule(getInitWasm, validatePreprocessModule)`
preprocessInit ==
  /\ preInitPc = "idle"
  /\ setDisabled(TRUE)
  /\ preInitPc' = "awaitWasm"
  /\ preInitPromise' = "pending"
  /\ UNCHANGED <<page, preWasm, preWasmModule, smolvlmPipeline, setupUICalls,
                 setupUIDone, errorDivText>>
  /\ UNCHANGED <<orchVars, loadVars, workerVars, valVars, fetchVars>>

\* loadWasmModule settles: a rejection goes to the outer catch block; a module is
\* assigned, tested against null, and the captioning pipeline is requested
PreprocessWasmSettled(r) ==
  /\ preInitPc = "awaitWasm"
  /\ preWasm' = r
  /\ IF r = "ok"
       THEN /\ preWasmModule' = "handle"
            /\ IF preWasmModule' = "null"
                 THEN outerCatch(WasmInitError("WASM module failed validation"))
                 ELSE /\ preInitPc' = "awaitModel"
                      /\ UNCHANGED <<disabled, errorDivText, preInitPromise>>
       ELSE /\ outerCatch(loaderError(r))
            /\ UNCHANGED preWasmModule
  /\ UNCHANGED <<page, smolvlmPipeline, setupUICalls, setupUIDone>>
  /\ UNCHANGED <<orchVars, loadVars, workerVars, valVars, fetchVars>>

\* the captioning pipeline settles and init runs to its end: the inner catch
\* block, the buttons enabled, setupUI called, and, when setupUI throws, the
\* outer catch block
PreprocessCaptionSettled(o) ==
  /\ preInitPc = "awaitModel"
  /\ IF captionErrorEscapes(o)
       THEN /\ outerCatch(ErrorObject("caption"))
            /\ UNCHANGED <<smolvlmPipeline, setupUICalls, setupUIDone>>
       ELSE /\ smolvlmPipeline' = IF o = "loaded" THEN "loaded" ELSE "null"
            /\ setupUICalls' = setupUICalls + 1
            /\ IF setupUIThrows
                 THEN /\ outerCatch(ErrorObject("Required UI elements not found"))
                      /\ UNCHANGED setupUIDone
                 ELSE /\ setDisabled(FALSE)
                      /\ setupUIDone' = TRUE
                      /\ errorDivText' =
                           IF o = "loaded" THEN errorDivText ELSE innerErrorText(o)
                      /\ preInitPc' = "done"
                      /\ preInitPromise' = "fulfilled"
  /\ UNCHANGED <<page, preWasm, preWasmModule>>
  /\ UNCHANGED <<orchVars, loadVars, workerVars, valVars, fetchVars>>

\* one call of init on any page: each process button, when it is a button, may
\* start out disabled or enabled
InitPreprocessInit ==
  /\ InitOrch /\ InitLoad /\ InitWorker /\ ValIdle /\ FetchIdle
  /\ page \in Pages
  /\ disabled \in [ProcessButtons -> BOOLEAN]
  /\ \A b \in ProcessButtons : page.buttons[b] # "button" => ~disabled[b]
  /\ preInitPc = "idle"
  /\ preWasm = "none"
  /\ preWasmModule = "null"
  /\ smolvlmPipeline = "null"
  /\ setupUICalls = 0
  /\ setupUIDone = FALSE
  /\ errorDivText = ""
  /\ preInitPromise = "none"

NextPreprocessInit ==
  \/ preprocessInit
  \/ \E r \in Settled : PreprocessWasmSettled(r)
  \/ \E o \in CaptionOutcomes : PreprocessCaptionSettled(o)

SpecPreprocessInit == InitPreprocessInit /\ [][NextPreprocessInit]_vars

\* ------------------------------------------------------------------ claims
GenerateIds == {id \in Ids : calls[id].kind = "generate"}
PendingIds == {h.id : h \in handlers}

\* the worker's response to command id has been posted and dispatched
Answered(id) ==
  /\ workerPosts[id] # <<>>
  /\ workerPosts[id][1] \notin undelivered

\* C1: with overlapping generate calls and the worker's responses dispatched in
\* any order, a call stays pending (listener registered, continuation untouched)
\* until the response carrying its id is dispatched, and from then on it is
\* settled by that response alone, with that response's payload.
C1_EachCallSettledByItsOwnResponse ==
  \A id \in GenerateIds :
    IF Answered(id)
      THEN LET r == workerPosts[id][1]
           IN  /\ settleLog[id] = <<r>>
               /\ r.id = id
               /\ calls[id].val = r.data
               /\ calls[id].st = IF r.type = "result" THEN "resolved" ELSE "rejected"
               /\ id \notin PendingIds
      ELSE /\ calls[id].st = "pending"
           /\ settleLog[id] = <<>>
           /\ id \in PendingIds

\* two overlapping generate calls, the later one answered first
C1_Witness ==
  \E a, b \in GenerateIds :
    /\ a < b
    /\ calls[b].st = "resolved"
    /\ calls[a].st = "pending"
    /\ workerPosts[a] # <<>>

\* C2: a message event whose id no pending call awaits (never issued, or already
\* settled) resolves and rejects nothing and leaves the listeners and the calls
\* as they were.
C2_OrphanResponseDiscarded ==
  [][\A id \in AllIds, t \in ResponseTypes :
       (id \notin PendingIds /\ Inject(Response(id, t, "x")))
         => UNCHANGED <<handlers, calls, settleLog, initPc>>]_vars

\* an orphan has been dispatched while a generate call was pending, and still is
C2_Witness ==
  /\ orphanSeen # {}
  /\ \E id \in GenerateIds : calls[id].st = "pending" /\ id \in PendingIds

\* C3: the worker posts nothing for a generate command while it handles it,
\* exactly one message once it has handled it, a result or an error, carrying the
\* command's id; and nothing for an id it was not called with.
C3_OneResponsePerGenerate ==
  \A id \in Ids :
    /\ \A k \in 1..Len(workerPosts[id]) : workerPosts[id][k].id = id
    /\ wtask[id].pc = "none" => workerPosts[id] = <<>>
    /\ wtask[id].type = "generate" =>
         /\ wtask[id].pc \in {"awaitPipeline", "generating"} => workerPosts[id] = <<>>
         /\ wtask[id].pc = "done" =>
              /\ Len(workerPosts[id]) = 1
              /\ workerPosts[id][1].type \in {"result", "error"}

\* one generate command answered with a result, another with an error
C3_Witness ==
  \E a, b \in Ids :
    /\ wtask[a].type = "generate" /\ wtask[a].pc = "done"
    /\ wtask[b].type = "generate" /\ wtask[b].pc = "done"
    /\ workerPosts[a][1].type = "result"
    /\ workerPosts[b][1].type = "error"

\* the response kinds a call's handler acts on
Expected(kind) ==
  IF kind = "generate" THEN {"result", "error"} ELSE {"loaded", "error"}

\* C4: a response whose id matches a pending call and whose kind the call does
\* not expect rejects the call (it is not left pending).
C4_WrongKindRejectsCaller ==
  [][\A id \in Ids, t \in ResponseTypes :
       (/\ id \in PendingIds
        /\ calls[id].st = "pending"
        /\ t \notin Expected(calls[id].kind)
        /\ Inject(Response(id, t, "x")))
         => calls'[id].st = "rejected"]_vars

\* a loaded response has been received: the load call is resolved
LoadedReceived == \E id \in Ids : calls[id].kind = "load" /\ calls[id].st = "resolved"

\* C5: a generate command is posted only after a loaded response was received.
C5_NoGenerateBeforeLoaded ==
  [][(/\ Len(sentLog') > Len(sentLog)
      /\ sentLog'[Len(sentLog')].type = "generate") => LoadedReceived]_vars

\* C6: the Worker constructor runs at most once, and the worker it made stays the
\* one every later call finds.
C6_WorkerCreatedAtMostOnce ==
  /\ workersCreated <= 1
  /\ chatWorker = workersCreated

\* a second init went through loadChatModel while the first one's load is outstanding
C6_Witness ==
  \E i, j \in Inits :
    /\ initPc[i] = "load"
    /\ initPc[j] = "ready"
    /\ workersCreated = 1

\* C7: terminate is called at most once, and nothing is posted to the worker
\* after it.
C7_TerminateOnceThenSilence ==
  [][/\ terminateCalls' <= 1
     /\ terminated => sentLog' = sentLog]_vars

\* C8: however many init calls overlap in loadWasmModule, getInitWasm is invoked
\* exactly once, default() at most once, and every caller is given the same outcome.
C8_SingleFlightInitializer ==
  /\ defaultCalls <= 1
  /\ Cardinality({j \in Inits : inv[j].pc # "none"}) <= 1
  /\ (\E i \in Inits : initPc[i] # "idle") => (\E j \in Inits : inv[j].pc # "none")
  /\ \A i, j \in Inits :
       (wasmSeen[i] # "none" /\ wasmSeen[j] # "none") => wasmSeen[i] = wasmSeen[j]

\* two callers await the load at the same time; the one initializer run has ended
C8_Witness ==
  \E i, j \in Inits :
    /\ i # j
    /\ initPc[i] = "wasm" /\ initPc[j] = "wasm"
    /\ awaits[i] = awaits[j]
    /\ inv[awaits[i]].pc \in Settled
    /\ defaultCalls = 1

RequiredFunctions == IF vWhich = "chat" THEN ChatFunctions ELSE PreprocessFunctions

\* C9: a validator returns a handle only with a WebAssembly.Memory as its memory
\* and every required operation on it callable.
C9_HandleHasEveryEntry ==
  (vPc = "done" /\ vOut.kind = "handle") =>
    /\ vOut.memory = "Memory"
    /\ DOMAIN vOut.ops = Range(RequiredFunctions)
    /\ \A f \in Range(RequiredFunctions) : vOut.ops[f] = "function"

C9_Witness ==
  /\ vPc = "done"
  /\ vWhich = "preprocess"
  /\ vOut.kind = "handle"

\* the contract entries the candidate lacks: the memory, and every operation that
\* is not a callable export of the glue module
MissingEntries ==
  (IF vExports.memory = "Memory" THEN {} ELSE {"memory"})
    \cup {f \in Range(RequiredFunctions) : vModule.typeOf[f] # "function"}

\* C10: a candidate that lacks a contract entry fails validation with an error
\* that names every entry it lacks and lists the exports present; stated for the
\* candidates that pass the loader's generic test and whose glue module is loaded.
C10_MissingEntriesEnumerated ==
  (/\ vPc = "done"
   /\ vExports.valid /\ vExports.isObject /\ ~vModule.isNull
   /\ MissingEntries # {}) =>
    /\ vOut.kind = "throw"
    /\ MissingEntries \subseteq Range(vOut.missing)
    /\ vOut.available = exportKeys(vExports)

\* --------------------------------------------------- claims on the fetch wrappers
IsErrorStatus(o) == o.kind = "response" /\ o.status >= 400 /\ o.status <= 599
Candidates == Len(CORS_PROXY_SERVICES)
\* the call is customFetch on a URL of the restricted host, no mirror involved
RestrictedCall ==
  /\ fWhich = "worker"
  /\ fPc # "call"
  /\ fUrl.host = "huggingface.co"
  /\ "cdn.jsdelivr.net" \notin fUrl.rest

\* C11: on a restricted-host URL customFetch asks the three proxies in the order
\* allorigins, corsproxy, codetabs, each only after the previous fetch has
\* settled (at most one fetch is outstanding and it is the last one started);
\* when the first two answer with error statuses and the third succeeds, the
\* call returns the third response after exactly three fetches, none of them
\* the direct one.
C11_ThirdCandidateAfterTwoErrors ==
  /\ \A k \in 1..Len(fLog) : fLog[k].out = Inflight => k = Len(fLog)
  /\ RestrictedCall =>
       /\ Len(fLog) >= 1
       /\ fLog[1].req = FollowRequest(proxyUrl("api.allorigins.win", fUrl))
       /\ IsErrorStatus(fLog[1].out) =>
            /\ Len(fLog) >= 2
            /\ fLog[2].req = FollowRequest(proxyUrl("corsproxy.io", fUrl))
            /\ IsErrorStatus(fLog[2].out) =>
                 /\ Len(fLog) >= 3
                 /\ fLog[3].req = FollowRequest(proxyUrl("api.codetabs.com", fUrl))
                 /\ ok(fLog[3].out) =>
                      /\ fPc = "done"
                      /\ fRet = 3
                      /\ Len(fLog) = 3
                      /\ \A k \in 1..3 : fLog[k].req.url # fUrl

C11_Witness ==
  /\ RestrictedCall
  /\ fPc = "done"
  /\ Len(fLog) = 3
  /\ fLog[1].out.status = 404
  /\ fLog[2].out.status = 503
  /\ fLog[3].out.status = 200
  /\ fRet = 3

\* C12: a call on a URL whose host is not the restricted host makes exactly one
\* fetch, the direct one with the caller's input and init, and returns its outcome.
C12_OffHostGoesDirect ==
  (fPc \in {"awaitProxy", "awaitReturned", "done"} /\ fUrl.host # "huggingface.co") =>
    /\ Len(fLog) = 1
    /\ fLog[1].req = DirectRequest(fUrl)
    /\ fRet = 1

\* C13: when customFetch needs the proxies and none of the candidates gave a
\* successful response, it has made exactly one more fetch, the direct one with
\* the caller's input and init, after the last candidate, and the outcome of that
\* fetch is the outcome of the call.
C13_DirectFallbackAfterExhaustion ==
  (/\ fWhich = "worker"
   /\ needsProxy(fUrl)
   /\ Len(fLog) >= Candidates
   /\ \A k \in 1..Candidates : fLog[k].out # Inflight /\ ~ok(fLog[k].out)) =>
    /\ Len(fLog) = Candidates + 1
    /\ \A k \in 1..Candidates : fLog[k].req.url # fUrl
    /\ fLog[Candidates + 1].req = DirectRequest(fUrl)
    /\ fRet = Candidates + 1
    /\ fPc \in {"awaitReturned", "done"}

C13_Witness ==
  /\ fWhich = "worker"
  /\ fPc = "done"
  /\ Len(fLog) = Candidates + 1
  /\ fLog[1].out.kind = "fault"
  /\ fLog[2].out.status = 304
  /\ fLog[3].out.status = 503
  /\ fLog[4].out.status = 200
  /\ fRet = 4

\* C14: within one customFetch call no proxy candidate is asked twice, whatever
\* it answered, and the call makes at most (number of candidates + 1) fetches.
C14_EachCandidateAtMostOnce ==
  fWhich = "worker" =>
    /\ Len(fLog) <= Candidates + 1
    /\ \A j, k \in 1..Len(fLog) : j < k => fLog[j].req.url # fLog[k].req.url

C14_Witness ==
  /\ fWhich = "worker"
  /\ fPc = "done"
  /\ Len(fLog) = Candidates + 1
  /\ fLog[1].out.kind = "fault"
  /\ fLog[2].out.kind = "fault"
  /\ IsErrorStatus(fLog[3].out)

\* C15: a customFetch call ends in a failure (a thrown fault or a response that
\* is not ok) only as the outcome of the direct fetch, which on a URL that needs
\* the proxies comes after every candidate; what a proxy candidate threw or
\* answered with an error status is never the outcome of the call.
C15_FailureOnlyFromDirect ==
  (fWhich = "worker" /\ fPc = "done" /\ ~ok(fLog[fRet].out)) =>
    /\ fRet = Len(fLog)
    /\ fLog[fRet].req = DirectRequest(fUrl)
    /\ needsProxy(fUrl) => fRet = Candidates + 1

C15_Witness ==
  /\ fWhich = "worker"
  /\ needsProxy(fUrl)
  /\ fPc = "done"
  /\ fLog[1].out.kind = "fault"
  /\ IsErrorStatus(fLog[2].out)
  /\ fLog[fRet].out.kind = "fault"
  /\ fRet = Candidates + 1

\* ----------------------------------------------------- claims on the RPC calls
\* C16: generateChatResponse called while there is no worker throws the 'not
\* initialized' error, registers no handler and posts nothing; and the error it
\* threw differs, as an object a caller can test, from the failure any call was
\* rejected with on an error response, whatever text that response carried.
C16_NotInitializedDistinct ==
  [][/\ (sends' = sends + 1 /\ chatWorker = 0) =>
          /\ thrown' = ErrorObject("Chat worker not initialized")
          /\ handlers' = handlers
          /\ sentLog' = sentLog
     /\ \A id \in Ids :
          (thrown' # NoError /\ calls'[id].st = "rejected") =>
            ErrorObject(calls'[id].val) # thrown']_vars

\* a response the worker posted is dispatched in this step
Arrives(m) == m \in undelivered /\ m \notin undelivered'

\* C17: an error response whose id matches a pending call removes the call's
\* listener and rejects the call with exactly the error text of that response.
C17_ErrorRejectsVerbatim ==
  [][\A m \in undelivered :
       (/\ Arrives(m)
        /\ m.type = "error"
        /\ m.id \in PendingIds
        /\ calls[m.id].st = "pending")
         => /\ \A h \in handlers' : h.id # m.id
            /\ calls'[m.id].st = "rejected"
            /\ calls'[m.id].val = m.data
            /\ settleLog'[m.id] = <<m>>]_vars

\* two generate calls rejected, with different texts
C17_Witness ==
  \E a, b \in Ids :
    /\ calls[a].kind = "generate" /\ calls[b].kind = "generate"
    /\ calls[a].st = "rejected" /\ calls[b].st = "rejected"
    /\ calls[a].val # calls[b].val
    /\ {a, b} \cap PendingIds = {}

\* C18: a result response whose id matches a pending generate call resolves it
\* with exactly the text of that response, a loaded response whose id matches a
\* pending load call resolves it, and in the same step the call's listener is
\* removed.
C18_MatchingResponseResolves ==
  [][\A m \in undelivered :
       (/\ Arrives(m)
        /\ m.id \in PendingIds
        /\ calls[m.id].st = "pending")
         => /\ (calls[m.id].kind = "generate" /\ m.type = "result") =>
                 /\ \A h \in handlers' : h.id # m.id
                 /\ calls'[m.id].st = "resolved"
                 /\ calls'[m.id].val = m.data
            /\ (calls[m.id].kind = "load" /\ m.type = "loaded") =>
                 /\ \A h \in handlers' : h.id # m.id
                 /\ calls'[m.id].st = "resolved"]_vars

\* a load call resolved, and two generate calls resolved with different texts
C18_Witness ==
  \E a, b, c \in Ids :
    /\ calls[a].kind = "load" /\ calls[a].st = "resolved"
    /\ calls[b].kind = "generate" /\ calls[b].st = "resolved"
    /\ calls[c].kind = "generate" /\ calls[c].st = "resolved"
    /\ calls[b].val # calls[c].val
    /\ {a, b, c} \cap PendingIds = {}

\* C19: resolve / reject of a call is invoked at most once; a settled call has no
\* listener left, and a further response carrying the id of a settled call
\* invokes nothing and changes no listener and no call.
C19_SettledAtMostOnce ==
  [][\A id \in Ids :
       /\ Len(settleLog'[id]) <= 1
       /\ calls[id].st \in {"resolved", "rejected"} =>
            /\ id \notin PendingIds
            /\ \A t \in ResponseTypes :
                 Inject(Response(id, t, "x"))
                   => UNCHANGED <<handlers, calls, settleLog, initPc>>]_vars

\* a response with the id of an already settled call has been dispatched, while
\* another call was pending
C19_Witness ==
  /\ "duplicate" \in orphanSeen
  /\ \E id \in Ids : Len(settleLog[id]) = 1
  /\ \E id \in Ids : calls[id].st = "pending" /\ id \in PendingIds

\* C20: no two registered listeners await the same id.
C20_OnePendingEntryPerId ==
  \A g, h \in handlers : g.id = h.id => g = h

\* three listeners registered at once: the load call's and two generate calls'
C20_Witness ==
  /\ Cardinality(handlers) = 3
  /\ \E h \in handlers : h.kind = "load"

\* ------------------------------------------- claims on the table of pending calls
\* C21: the registered listeners are exactly the calls whose request was posted
\* and to which no response carrying their id has been dispatched yet: a step
\* that posts a request registers exactly the listener of its id, a dispatched
\* response removes exactly the listeners of its id, whatever its kind, and no
\* other step changes the listeners.
C21_EntriesAreUnansweredRequests ==
  [][/\ sentLog' # sentLog =>
          LET m == sentLog'[Len(sentLog')]
          IN  /\ sentLog' = Append(sentLog, m)
              /\ m.id \notin PendingIds
              /\ handlers \subseteq handlers'
              /\ {h.id : h \in handlers' \ handlers} = {m.id}
              /\ Cardinality(handlers') = Cardinality(handlers) + 1
     /\ \A id \in AllIds, t \in ResponseTypes :
          Inject(Response(id, t, "x")) => handlers' = {h \in handlers : h.id # id}
     /\ (sentLog' = sentLog /\ handlers' # handlers) =>
          \E id \in AllIds, t \in ResponseTypes : Inject(Response(id, t, "x"))]_vars

\* three requests were posted, each got a response, and no listener is left
C21_Witness ==
  /\ Len(sentLog) = 3
  /\ handlers = {}
  /\ \A id \in 1..3 : calls[id].st \in {"resolved", "rejected"}

\* C22: a step that rejects a generate call, or in which generateChatResponse
\* throws for want of a worker, leaves every other call and its listener as they
\* were; a generate call made after such a failure, with a worker, is posted with
\* its own listener; and a call is only ever settled by a response carrying its
\* own id, with that response's payload.
C22_FailureLeavesOtherCallsIntact ==
  [][/\ \A id \in Ids :
          (calls[id].kind = "generate" /\ calls[id].st = "pending"
             /\ calls'[id].st = "rejected") =>
            \A j \in Ids \ {id} :
              /\ calls'[j] = calls[j]
              /\ {h \in handlers' : h.id = j} = {h \in handlers : h.id = j}
     /\ (sends' = sends + 1 /\ chatWorker = 0) =>
          /\ thrown' # NoError
          /\ UNCHANGED <<handlers, calls, settleLog, sentLog>>
     /\ (/\ sends' = sends + 1
         /\ chatWorker # 0
         /\ (thrown # NoError \/ \E id \in Ids : calls[id].st = "rejected")) =>
          /\ sentLog' = Append(sentLog, GenerateMessage(nextId))
          /\ handlers' = handlers \cup {[id |-> nextId, kind |-> "generate", n |-> nextId]}
          /\ calls' = [calls EXCEPT ![nextId] =
                         [kind |-> "generate", st |-> "pending", val |-> ""]]
     /\ \A id \in Ids :
          /\ calls'[id].st = "pending" => settleLog'[id] = <<>>
          /\ calls'[id].st \in {"resolved", "rejected"} =>
               /\ Len(settleLog'[id]) = 1
               /\ settleLog'[id][1].id = id
               /\ calls'[id].kind = "generate" => calls'[id].val = settleLog'[id][1].data
               /\ calls'[id].st =
                    IF settleLog'[id][1].type = "error" THEN "rejected" ELSE "resolved"]_vars

\* one generate call was rejected and a later one was resolved
C22_Witness ==
  \E a, b \in GenerateIds :
    /\ a < b
    /\ calls[a].st = "rejected"
    /\ calls[b].st = "resolved"
    /\ sends = MaxCalls

\* C23: there is no timeout and no cancellation: in a step that dispatches no
\* response carrying its id, a pending call stays pending and its listener stays
\* registered, whatever else happens (other calls, the worker, beforeunload).
C23_PendingUntilAnswered ==
  [][\A id \in Ids :
       (/\ calls[id].st = "pending"
        /\ id \in PendingIds
        /\ ~ \E m \in undelivered : Arrives(m) /\ m.id = id) =>
         /\ calls'[id] = calls[id]
         /\ {h \in handlers' : h.id = id} = {h \in handlers : h.id = id}]_vars

\* after terminate() a posted generate call is pending with its listener and the
\* worker has never been called with it, while an earlier call was settled
C23_Witness ==
  /\ terminated
  /\ \E a, b \in Ids :
       /\ calls[a].st \in {"resolved", "rejected"}
       /\ calls[b].st = "pending"
       /\ b \in PendingIds
       /\ wtask[b].pc = "none"

\* ------------------------------------------------------ claims on init
\* C24: init creates the worker and posts the load command only with a validated
\* module handle: an init whose loadWasmModule ended in an initializer failure or
\* a validation failure creates no worker, posts nothing and fails (its catch
\* block rethrows); whenever a worker exists or a message was posted, the handle
\* is stored and has its memory and every required operation.
C24_WorkerOnlyAfterValidatedModule ==
  [][/\ \A i \in Inits :
          (/\ initPc[i] = "wasm"
           /\ initPc'[i] # "wasm"
           /\ inv[awaits[i]].pc \in {"load_error", "validation_error"}) =>
            /\ initPc'[i] = "failed"
            /\ UNCHANGED <<chatWorker, workersCreated, sentLog, handlers, wasmModule>>
     /\ (workersCreated' > 0 \/ sentLog' # <<>>) =>
          /\ wasmModule'.kind = "handle"
          /\ wasmModule'.memory = "Memory"
          /\ DOMAIN wasmModule'.ops = Range(ChatFunctions)
          /\ \A f \in Range(ChatFunctions) : wasmModule'.ops[f] = "function"
          /\ \E i \in Inits : wasmSeen'[i] = "ok"]_vars

\* one init failed on validation, no worker exists and nothing was posted
C24_Witness ==
  /\ \E i \in Inits : initPc[i] = "failed" /\ wasmSeen[i] = "validation_error"
  /\ workersCreated = 0
  /\ sentLog = <<>>

\* C25: the failure of an init tells whether the module could not be obtained
\* (the import or default() rejected: an initializer failure) or was obtained
\* but lacks required exports (a validation failure).
C25_InitializerAndValidationFailuresDistinct ==
  [][\A i \in Inits :
       /\ (ImportRejected(i) \/ DefaultRejected(i)) => inv'[i].pc = "load_error"
       /\ \A m \in ModuleShapes(ChatFunctions) :
            (ImportResolved(i, m) /\ firstBadExport(m) # <<>>) =>
              inv'[i].pc = "validation_error"
       /\ \A e \in ExportsShapes(ChatFunctions) :
            (DefaultResolved(i, e) /\ inv'[i].result.kind # "handle") =>
              inv'[i].pc = "validation_error"]_vars

\* ------------------------------------------- claims on the indirection decision
\* the first fetch of the call went to a proxy
Proxied == fLog[1].req.url # fUrl

\* C26: a call of either fetch wrapper goes through a proxy exactly when the
\* URL's host is huggingface.co (the mirror cdn.jsdelivr.net is another host);
\* host names that merely occur in the path or query change nothing.
C26_DecisionByOriginOnly ==
  fPc \in {"awaitProxy", "awaitReturned", "done"} =>
    (Proxied <=> fUrl.host = "huggingface.co")

\* a proxy candidate answered with a status that is neither ok nor 4xx/5xx
SoftFailure(o) == o.kind = "response" /\ ~ok(o) /\ ~IsErrorStatus(o)

\* C27: when a proxy candidate of customFetch answers with a status that is
\* neither a success nor a 4xx/5xx error, the call does not return that response
\* and goes on to the next fetch (the next candidate, or the direct fetch after
\* the last one); a response the call returns from a proxy candidate is ok.
C27_SoftFailureContinuesChain ==
  fWhich = "worker" =>
    /\ \A k \in 1..Len(fLog) :
         (fLog[k].req.url # fUrl /\ SoftFailure(fLog[k].out)) =>
           /\ fRet # k
           /\ Len(fLog) > k
           /\ fLog[k + 1].req =
                IF k < Candidates
                  THEN FollowRequest(proxyUrl(CORS_PROXY_SERVICES[k + 1], fUrl))
                  ELSE DirectRequest(fUrl)
    /\ (fPc = "done" /\ fLog[fRet].req.url # fUrl) => ok(fLog[fRet].out)

\* the first candidate answered 304, the second one's 200 was returned
C27_Witness ==
  /\ fWhich = "worker"
  /\ fPc = "done"
  /\ fLog[1].out.status = 304
  /\ fRet = 2
  /\ fLog[2].out.status = 200

\* ------------------------------------------------- claims on the message order
\* C28: a call's listener is registered in the step that posts its request, so a
\* posted request that has not been answered has its listener, and every
\* response the worker has posted and that is still to be dispatched finds the
\* listener of its id.
C28_ListenerRegisteredBeforePost ==
  /\ \A k \in 1..Len(sentLog) :
       ~Answered(sentLog[k].id) => sentLog[k].id \in PendingIds
  /\ \A m \in undelivered : m.id \in PendingIds

\* the responses to two requests are both waiting to be dispatched
C28_Witness ==
  \E m1, m2 \in undelivered :
    /\ m1.id # m2.id
    /\ {m1.id, m2.id} \subseteq PendingIds

\* C29: the first message posted to the worker is the load command of the
\* loadChatModel call that created it.
C29_FirstMessageIsLoad ==
  (workersCreated > 0 \/ sentLog # <<>>) =>
    /\ Len(sentLog) >= 1
    /\ sentLog[1].type = "load"
    /\ \E i \in Inits : initLoadId[i] = sentLog[1].id
    /\ \A k \in 2..Len(sentLog) : sentLog[k].type = "generate"

\* the load command was followed by two generate commands
C29_Witness ==
  /\ Len(sentLog) = 3
  /\ sentLog[1].type = "load"
  /\ sentLog[3].type = "generate"

\* the worker was called with a load command and has handled it
LoadHandled(id) == wtask[id].type = "load" /\ wtask[id].pc = "done"
GenerateHandled(id) == wtask[id].type = "generate" /\ wtask[id].pc = "done"

\* C30 as stated: after a load acknowledged with one loaded message, a handled
\* generate command has exactly one message, a result, and each handled load
\* command has exactly one message.
C30_EndToEndSingleResult ==
  \A a, b \in Ids :
    (/\ LoadHandled(a)
     /\ workerPosts[a] = <<Response(a, "loaded", "")>>
     /\ GenerateHandled(b)) =>
      /\ Len(workerPosts[b]) = 1
      /\ workerPosts[b][1].type = "result"

\* C30, amended: after a load acknowledged with one loaded message, a handled
\* generate command has exactly one message carrying its id, a result or (when
\* generation failed) an error; a load command has no message while it is being
\* handled and exactly one once handled, loaded or (when the pipeline could not
\* be obtained) error; nothing further is posted for either id.
C30_EndToEndSingleResponse ==
  \A a, b \in Ids :
    /\ wtask[a].type = "load" =>
         IF wtask[a].pc = "done"
           THEN workerPosts[a] =
                  IF pipelinePromise = "rejected"
                    THEN <<Response(a, "error", "pipeline failed")>>
                    ELSE <<Response(a, "loaded", "")>>
           ELSE workerPosts[a] = <<>>
    /\ (/\ LoadHandled(a)
        /\ workerPosts[a] = <<Response(a, "loaded", "")>>
        /\ GenerateHandled(b)) =>
         /\ Len(workerPosts[b]) = 1
         /\ workerPosts[b][1].id = b
         /\ workerPosts[b][1].type \in {"result", "error"}
         /\ Len(workerPosts[a]) = 1

\* load acknowledged, then one generate answered with a result and another with
\* an error
C30_Witness ==
  \E a, b, c \in Ids :
    /\ LoadHandled(a) /\ workerPosts[a][1].type = "loaded"
    /\ GenerateHandled(b) /\ workerPosts[b][1].type = "result"
    /\ GenerateHandled(c) /\ workerPosts[c][1].type = "error"
    /\ undelivered = {}

\* C31: inside the worker pipeline(...) is invoked at most once over any sequence
\* of load and generate commands, also when their handling overlaps while the
\* construction is in flight: the promise is cached by the first command
\* received, and every handler that has reached `await getPipeline()` awaits
\* that one promise.
C31_PipelineConstructedOnce ==
  /\ pipelineCalls <= 1
  /\ pipelineCalls = 0 <=> pipelinePromise = "null"
  /\ pipelineCalls = 0 <=> workerRecv = 0
  /\ \A id \in Ids : wtask[id].pc = "awaitPipeline" => pipelineCalls = 1

\* a load and a generate command are both awaiting the pipeline while its one
\* construction is still in flight
C31_Witness ==
  /\ pipelinePromise = "pending"
  /\ pipelineCalls = 1
  /\ \E a, b \in Ids :
       /\ wtask[a].pc = "awaitPipeline" /\ wtask[a].type = "load"
       /\ wtask[b].pc = "awaitPipeline" /\ wtask[b].type = "generate"

\* C32: a failed pipeline construction is never retried. Once the cached promise
\* has rejected it stays rejected and pipeline(...) is not called again; every
\* command handled from then on is answered with one error response carrying
\* that failure, no command reaches the generator, and no loaded or result
\* message is ever posted by that worker.
C32_FailedPipelineNeverRetried ==
  [][ /\ pipelinePromise = "rejected" =>
           /\ pipelinePromise' = "rejected"
           /\ pipelineCalls' = pipelineCalls
           /\ \A id \in Ids :
                workerPosts'[id] # workerPosts[id] =>
                  workerPosts'[id] =
                    workerPosts[id] \o <<Response(id, "error", "pipeline failed")>>
      /\ pipelinePromise' = "rejected" =>
           \A id \in Ids :
             /\ wtask'[id].pc # "generating"
             /\ wtask'[id].pc = "done" =>
                  workerPosts'[id] = <<Response(id, "error", "pipeline failed")>>
             /\ wtask'[id].pc # "done" => workerPosts'[id] = <<>>
    ]_vars

\* the pipeline promise has rejected, pipeline(...) was called once, and a load
\* command and a later generate command have both been answered with the error
C32_Witness ==
  /\ pipelinePromise = "rejected"
  /\ pipelineCalls = 1
  /\ \E a, b \in Ids :
       /\ a < b
       /\ wtask[a].type = "load" /\ wtask[a].pc = "done"
       /\ wtask[b].type = "generate" /\ wtask[b].pc = "done"
       /\ workerPosts[a] = <<Response(a, "error", "pipeline failed")>>
       /\ workerPosts[b] = <<Response(b, "error", "pipeline failed")>>

\* the page has every element setupUI looks up
PageHasAllElements ==
  /\ page.complete
  /\ \A b \in ProcessButtons : page.buttons[b] # "absent"

\* C33 (as stated): when the preprocessing page's init has completed, each
\* process button is enabled and setupUI has been called if and only if the WASM
\* module was loaded and validated, whatever became of the captioning model, and
\* init did not rethrow.
C33_ButtonsEnabledIffWasmLoaded ==
  preInitPc = "done" =>
    /\ preInitPromise = "fulfilled"
    /\ \A b \in ProcessButtons :
         page.buttons[b] = "button" =>
           ((~disabled[b] /\ setupUICalls = 1) <=> preWasm = "ok")

\* C33 (amended): a failed captioning-model load is not fatal. setupUI is called,
\* once, if and only if the WASM module was loaded and validated, regardless of
\* the model; it returns if and only if the page also has every element it looks
\* up, and the process buttons end up enabled exactly then. When the WASM load
\* or validation fails, or setupUI throws, the buttons end up disabled. In every
\* case init completes without rethrowing.
C33_ModelFailureNotFatal ==
  /\ preInitPromise # "rejected"
  /\ preInitPc # "done" => setupUICalls = 0 /\ ~setupUIDone
  /\ preInitPc = "done" =>
       /\ preInitPromise = "fulfilled"
       /\ setupUICalls = (IF preWasm = "ok" THEN 1 ELSE 0)
       /\ setupUIDone <=> (preWasm = "ok" /\ PageHasAllElements)
       /\ \A b \in ProcessButtons :
            page.buttons[b] = "button" => (~disabled[b] <=> setupUIDone)

\* the WASM module was loaded, the captioning model failed to load, and init
\* completed with setupUI run and both process buttons enabled
C33_Witness ==
  /\ preInitPc = "done"
  /\ preWasm = "ok"
  /\ smolvlmPipeline = "null"
  /\ errorDivText = "Image captioning model failed to load"
  /\ setupUIDone
  /\ \A b \in ProcessButtons : page.buttons[b] = "button" /\ ~disabled[b]

====
